---- MODULE Spec2Model ----
(***************************************************************************)
(* pdf_splitter (src/src/main.rs): splits a PDF into one file per          *)
(* top-level bookmark.  main() runs four phases in sequence:               *)
(*   names     build the named-destination table (name tree, then legacy)  *)
(*   scan/walk walk the outline's sibling chain, resolving destinations    *)
(*   normalize fallback entry, sort, dedup                                 *)
(*   split     one parallel task per chapter: range, clone, delete, save   *)
(* decode_pdf_string is a pure function used by the walker for titles.     *)
(* Each phase has its own specification, started from the states the       *)
(* previous phase can hand over.                                           *)
(***************************************************************************)
EXTENDS Integers, Sequences, FiniteSets, TLC

VARIABLES
    pc,              \* position in main(): the phase being executed
    bytes,           \* decode_pdf_string: argument
    decoded,         \* decode_pdf_string: returned String (code points)
    dests_entry,     \* catalog /Names /Dests: "absent", "ref" or "inline"
    tree,            \* name-tree nodes in the object store, node 1 is the root
    legacy,          \* catalog /Dests legacy dictionary (key -> Object)
    named_dests,     \* HashMap<Vec<u8>, Object>
    outline,         \* outline item dictionaries in the object store
    first_ref,       \* Outlines /First (0: no Outlines dictionary or no First)
    current_id_opt,  \* collect_bookmarks_top_level: loop variable (0: None)
    chapter_starts,  \* Vec<(u32, String)>
    scan_log,        \* Vec<String>
    raw_starts,      \* history: chapter_starts as the outline scan left it
    total_pages,     \* page_numbers.len()
    save_fails,      \* environment: chapter ordinals whose save() returns Err
    tasks,           \* per chapter task of the par_iter: state, end_page, pages
    outputs          \* files written: chapter ordinal -> set of pages

vars == <<pc, bytes, decoded, dests_entry, tree, legacy, named_dests, outline,
          first_ref, current_id_opt, chapter_starts, scan_log, raw_starts,
          total_pages, save_fails, tasks, outputs>>

decodeVars == <<bytes, decoded>>
namesVars == <<dests_entry, tree, legacy, named_dests>>
walkVars == <<outline, first_ref, current_id_opt, scan_log>>
splitVars == <<raw_starts, save_fails, tasks, outputs>>

\* ------------------------------------------------------------------------
\* Bounds of the model
\* ------------------------------------------------------------------------
MaxLen == 5          \* longest byte string handed to decode_pdf_string
MaxTreeNodes == 2    \* name-tree nodes in the object store
MaxNodes == 2        \* outline items in the object store
MaxPages == 3        \* largest page count of a document
MaxRaw == 2          \* most (page, title) entries the scan hands over

\* Bytes the decoder is tried on: NUL, 'A', a UTF-8 continuation byte, a UTF-8
\* two-byte lead, a UTF-16 high-surrogate lead, and the two marker bytes.
ByteAlphabet == {0, 65, 169, 195, 216, 254, 255}

RECURSIVE SeqsUpTo(_, _)
SeqsUpTo(S, n) ==
    IF n = 0 THEN {<<>>}
    ELSE LET shorter == SeqsUpTo(S, n - 1)
         IN shorter \cup {Append(s, x) : s \in {t \in shorter : Len(t) = n - 1}, x \in S}

\* ------------------------------------------------------------------------
\* decode_pdf_string (main.rs 20-30)
\* ------------------------------------------------------------------------
ReplacementChar == 65533

\* chunks(2) with the short last chunk zero-padded, instead of chunks_exact(2)
ChunksPadded(s) ==
    [i \in 1..((Len(s) + 1) \div 2) |->
        s[2 * i - 1] * 256 + (IF 2 * i <= Len(s) THEN s[2 * i] ELSE 0)]

\* bytes[2..].chunks_exact(2).map(u16::from_be_bytes): the complete pairs only;
\* a trailing odd byte is in the (ignored) remainder of chunks_exact.
ChunksExactBE(s) ==
    [i \in 1..(Len(s) \div 2) |-> s[2 * i - 1] * 256 + s[2 * i]]

IsHighSurrogate(u) == u >= 55296 /\ u <= 56319
IsLowSurrogate(u) == u >= 56320 /\ u <= 57343

\* String::from_utf16: Err on any unpaired surrogate.
RECURSIVE Utf16Ok(_, _)
Utf16Ok(u, i) ==
    IF i > Len(u) THEN TRUE
    ELSE IF IsHighSurrogate(u[i])
         THEN i + 1 <= Len(u) /\ IsLowSurrogate(u[i + 1]) /\ Utf16Ok(u, i + 2)
    ELSE IF IsLowSurrogate(u[i]) THEN FALSE
    ELSE Utf16Ok(u, i + 1)

RECURSIVE Utf16Chars(_, _)
Utf16Chars(u, i) ==
    IF i > Len(u) THEN <<>>
    ELSE IF IsHighSurrogate(u[i])
         THEN <<65536 + (u[i] - 55296) * 1024 + (u[i + 1] - 56320)>> \o Utf16Chars(u, i + 2)
    ELSE <<u[i]>> \o Utf16Chars(u, i + 1)

IsCont(s, i) == i <= Len(s) /\ s[i] >= 128 /\ s[i] <= 191

Utf8CharWidth(b) ==
    IF b < 128 THEN 1
    ELSE IF b >= 194 /\ b <= 223 THEN 2
    ELSE IF b >= 224 /\ b <= 239 THEN 3
    ELSE IF b >= 240 /\ b <= 244 THEN 4
    ELSE 0

\* Second byte of a three- or four-byte sequence (overlong / surrogate / range).
SecondOk(s, i) ==
    /\ i + 1 <= Len(s)
    /\ LET b == s[i]
           c == s[i + 1]
       IN \/ b = 224 /\ c >= 160 /\ c <= 191
          \/ b >= 225 /\ b <= 236 /\ c >= 128 /\ c <= 191
          \/ b = 237 /\ c >= 128 /\ c <= 159
          \/ b >= 238 /\ b <= 239 /\ c >= 128 /\ c <= 191
          \/ b = 240 /\ c >= 144 /\ c <= 191
          \/ b >= 241 /\ b <= 243 /\ c >= 128 /\ c <= 191
          \/ b = 244 /\ c >= 128 /\ c <= 143

\* String::from_utf8_lossy: every maximal invalid part becomes U+FFFD.
RECURSIVE Utf8Lossy(_, _)
Utf8Lossy(s, i) ==
    IF i > Len(s) THEN <<>>
    ELSE LET b == s[i]
             w == Utf8CharWidth(b)
         IN CASE w = 1 -> <<b>> \o Utf8Lossy(s, i + 1)
              [] w = 2 ->
                   IF IsCont(s, i + 1)
                   THEN <<(b - 192) * 64 + (s[i + 1] - 128)>> \o Utf8Lossy(s, i + 2)
                   ELSE <<ReplacementChar>> \o Utf8Lossy(s, i + 1)
              [] w = 3 ->
                   IF ~SecondOk(s, i) THEN <<ReplacementChar>> \o Utf8Lossy(s, i + 1)
                   ELSE IF ~IsCont(s, i + 2) THEN <<ReplacementChar>> \o Utf8Lossy(s, i + 2)
                   ELSE <<(b - 224) * 4096 + (s[i + 1] - 128) * 64 + (s[i + 2] - 128)>>
                            \o Utf8Lossy(s, i + 3)
              [] w = 4 ->
                   IF ~SecondOk(s, i) THEN <<ReplacementChar>> \o Utf8Lossy(s, i + 1)
                   ELSE IF ~IsCont(s, i + 2) THEN <<ReplacementChar>> \o Utf8Lossy(s, i + 2)
                   ELSE IF ~IsCont(s, i + 3) THEN <<ReplacementChar>> \o Utf8Lossy(s, i + 3)
                   ELSE <<(b - 240) * 262144 + (s[i + 1] - 128) * 4096
                            + (s[i + 2] - 128) * 64 + (s[i + 3] - 128)>> \o Utf8Lossy(s, i + 4)
              [] OTHER -> <<ReplacementChar>> \o Utf8Lossy(s, i + 1)

HasMarker(s) == Len(s) >= 2 /\ s[1] = 254 /\ s[2] = 255

decode_pdf_string(s) ==
    IF HasMarker(s)
    THEN LET u16_vec == ChunksExactBE(SubSeq(s, 3, Len(s)))
         IN IF Utf16Ok(u16_vec, 1) THEN Utf16Chars(u16_vec, 1) ELSE Utf8Lossy(s, 1)
    ELSE Utf8Lossy(s, 1)

\* ------------------------------------------------------------------------
\* lopdf Objects.  An Object is modelled by its shape and the one datum the
\* program reads from it:
\*   PageArray     Array whose first element is Reference(a)
\*   IntArray      Array whose first element is no Reference
\*   Name          Name or String with bytes a (a key)
\*   DictD         Dictionary {D: Array [Reference(a) ...]}
\*   DictDName     Dictionary {D: Name a}
\*   Integer       any other object
\*   RefPageArray  Reference to a stored Array [Reference(a) ...]
\*   RefMissing    Reference to an id the store does not hold
\*   Absent        the dictionary has no such field
\* ------------------------------------------------------------------------
Obj(tag, a) == [tag |-> tag, a |-> a]
Absent == Obj("Absent", 0)

Keys == {1, 2}

\* doc.get_pages(): page number p -> id of its page object.
PageObjectId(p) == 100 + p

\* main.rs 65-69
object_id_to_page(n) == [id \in {PageObjectId(p) : p \in 1..n} |-> id - 100]

\* BTreeMap::get(..).cloned(): 0 stands for None, page numbers start at 1.
PageMapGet(page_map, id) == IF id \in DOMAIN page_map THEN page_map[id] ELSE 0

\* main.rs 218-223
resolve_object(o) ==
    CASE o.tag = "RefPageArray" -> [ok |-> TRUE, obj |-> Obj("PageArray", o.a)]
      [] o.tag = "RefMissing" -> [ok |-> FALSE, obj |-> o]
      [] OTHER -> [ok |-> TRUE, obj |-> o]

IsArray(o) == o.tag \in {"PageArray", "IntArray"}
IsKey(o) == o.tag = "Name"
IsDict(o) == o.tag \in {"DictD", "DictDName"}

\* arr.get(0).map(|o| o.as_reference()) followed by page_map.get
FirstElementPage(arr, page_map) ==
    IF arr.tag = "PageArray" THEN PageMapGet(page_map, arr.a) ELSE 0

\* The D entry of a named-destination dictionary.
DictGetD(d) ==
    IF d.tag = "DictD" THEN Obj("PageArray", d.a) ELSE Obj("Name", d.a)

\* main.rs 312-355; 0 stands for None
resolve_dest(dest_obj, page_map, table) ==
    LET r == resolve_object(dest_obj)
        real_dest == r.obj
    IN IF ~r.ok THEN 0
       ELSE IF IsArray(real_dest) THEN FirstElementPage(real_dest, page_map)
       ELSE IF IsKey(real_dest) /\ real_dest.a \in DOMAIN table
            THEN LET t == resolve_object(table[real_dest.a])
                     resolved_target == t.obj
                 IN IF ~t.ok THEN 0
                    ELSE IF IsArray(resolved_target) /\ resolved_target.tag = "PageArray"
                         THEN PageMapGet(page_map, resolved_target.a)
                    ELSE IF IsDict(resolved_target)
                         THEN LET inner == resolve_object(DictGetD(resolved_target))
                              IN IF inner.ok /\ IsArray(inner.obj)
                                 THEN FirstElementPage(inner.obj, page_map)
                                 ELSE 0
                    ELSE 0
       ELSE 0

\* ------------------------------------------------------------------------
\* Named-destination table (main.rs 73-122, 225-257)
\* ------------------------------------------------------------------------
\* HashMap::insert
MapInsert(map, k, v) == [x \in DOMAIN map \cup {k} |-> IF x = k THEN v ELSE map[x]]

\* for chunk in names.chunks(2): a pair is inserted when the chunk is complete
\* and its first element is a String or a Name (main.rs 90-101 and 230-241).
RECURSIVE InsertPairs(_, _, _)
InsertPairs(names, i, map) ==
    IF 2 * i - 1 > Len(names) THEN map
    ELSE IF 2 * i <= Len(names) /\ IsKey(names[2 * i - 1])
         THEN InsertPairs(names, i + 1, MapInsert(map, names[2 * i - 1].a, names[2 * i]))
    ELSE InsertPairs(names, i + 1, map)

\* main.rs 225-257
RECURSIVE collect_name_tree_recursive(_, _, _)
RECURSIVE CollectKids(_, _, _, _)
collect_name_tree_recursive(store, node_id, map) ==
    IF node_id \notin DOMAIN store THEN map
    ELSE CollectKids(store, store[node_id].kids, 1,
                     InsertPairs(store[node_id].names, 1, map))

\* for kid in kids { if let Ok(kid_ref) = kid.as_reference() { recurse } }
CollectKids(store, kids, i, map) ==
    IF i > Len(kids) THEN map
    ELSE CollectKids(store, kids, i + 1,
                     IF kids[i] # 0
                     THEN collect_name_tree_recursive(store, kids[i], map)
                     ELSE map)

\* main.rs 77-111: the catalog's Names/Dests entry.  A Reference goes through
\* collect_name_tree_recursive; an inline dictionary has only its own Names
\* array read.
NameTreeEntries(entry, store) ==
    CASE entry = "ref" -> collect_name_tree_recursive(store, 1, <<>>)
      [] entry = "inline" -> InsertPairs(store[1].names, 1, <<>>)
      [] OTHER -> <<>>

\* main.rs 112-120, or_insert instead of insert
InsertAllKeepOld(map, dict) ==
    [x \in DOMAIN map \cup DOMAIN dict |-> IF x \in DOMAIN map THEN map[x] ELSE dict[x]]

\* main.rs 112-120: for (key, val) in dests_dict.iter() { named_dests.insert(..) }
InsertAll(map, dict) ==
    [x \in DOMAIN map \cup DOMAIN dict |-> IF x \in DOMAIN dict THEN dict[x] ELSE map[x]]

\* Input families of the names phase.
TargetVals == {Obj("PageArray", PageObjectId(1)), Obj("DictD", PageObjectId(2))}

NamesArrays ==
    {<<>>}
    \cup {<<Obj("Name", k), v>> : k \in Keys, v \in TargetVals}
    \cup {<<Obj("Name", 1), Obj("PageArray", PageObjectId(1)),
            Obj("Name", 2), Obj("DictD", PageObjectId(2))>>,
          <<Obj("Name", 1), Obj("PageArray", PageObjectId(1)), Obj("Name", 2)>>,
          <<Obj("Integer", 0), Obj("PageArray", PageObjectId(1))>>}

RECURSIVE SetToSeq(_)
SetToSeq(S) ==
    IF S = {} THEN <<>>
    ELSE LET m == CHOOSE x \in S : \A y \in S : x <= y
         IN <<m>> \o SetToSeq(S \ {m})

\* Acyclic trees: the kids of node n are nodes with a larger id.
TreeNodes(n) ==
    {[names |-> a, kids |-> SetToSeq(K)] :
        a \in NamesArrays, K \in SUBSET ((n + 1)..MaxTreeNodes)}

RECURSIVE TreeStoresUpTo(_)
TreeStoresUpTo(n) ==
    IF n = 0 THEN {<<>>}
    ELSE {Append(t, node) : t \in TreeStoresUpTo(n - 1), node \in TreeNodes(n)}

LegacyDicts == UNION {[D -> TargetVals] : D \in SUBSET Keys}

\* ------------------------------------------------------------------------
\* Outline scan (main.rs 125-153, 259-310)
\* ------------------------------------------------------------------------
\* An outline item: has_title/title (Title bytes), dest (Dest or Absent),
\* action ([s, d]: subtype of A and its D entry; s = "None" when A is absent),
\* first and next (object ids of First and Next; 0 when the field is absent).
NoTitle == <<78, 111, 32, 84, 105, 116, 108, 101>>                  \* "No Title"
SkippedPrefix == <<83, 107, 105, 112, 112, 101, 100, 58, 32, 39>>   \* "Skipped: '"
SkippedLine(title) == SkippedPrefix \o title \o <<39>>

\* main.rs 271-275
ItemTitle(item) ==
    IF item.has_title THEN decode_pdf_string(item.title) ELSE NoTitle

\* Treats every action as a GoTo action.
IsGotoAny(action) == action.s # "None"

\* main.rs 284-288
IsGoto(action) == action.s = "GoTo"

\* main.rs 277-296; 0 stands for None
TargetPageNum(item, page_map, table) ==
    LET from_dest == IF item.dest = Absent THEN 0
                     ELSE resolve_dest(item.dest, page_map, table)
    IN IF from_dest # 0 THEN from_dest
       ELSE IF item.action.s # "None" /\ IsGoto(item.action) /\ item.action.d # Absent
            THEN resolve_dest(item.action.d, page_map, table)
       ELSE 0

\* Follows First when there is one, and Next otherwise.
NextIdOrChild(item) == IF item.first # 0 THEN item.first ELSE item.next

\* main.rs 303-305
NextId(item) == item.next

\* The vectors are tracked up to MaxVisits entries; a scan of an acyclic chain
\* visits no item twice and stays below it.
MaxVisits == MaxNodes + 1
PushCapped(v, x) == IF Len(v) < MaxVisits THEN Append(v, x) ELSE v

\* Input families of the scan.  Item n targets page DestPage(n), names key n,
\* and carries the title chr(64 + n): UTF-16BE with marker for odd n, plain
\* for even n, none for every third item.
DestPage(n) == ((n - 1) % MaxPages) + 1
TitleBytes(n) == IF n % 2 = 1 THEN <<254, 255, 0, 64 + n>> ELSE <<64 + n>>

ItemDests(n) == {Absent, Obj("PageArray", PageObjectId(DestPage(n))), Obj("Name", n)}
ItemActions(n) ==
    {[s |-> "None", d |-> Absent],
     [s |-> "GoTo", d |-> Obj("PageArray", PageObjectId(DestPage(n)))],
     [s |-> "URI", d |-> Obj("PageArray", PageObjectId(DestPage(n)))]}

\* Next may name any item (also an earlier one or itself) or a missing object
\* (MaxNodes + 1); First names the item stored next.
Items(n) ==
    {[has_title |-> (n % 3 # 0), title |-> TitleBytes(n), dest |-> d, action |-> a,
      first |-> f, next |-> x] :
        d \in ItemDests(n), a \in ItemActions(n),
        f \in {0} \cup ({n + 1} \cap (1..MaxNodes)), x \in 0..(MaxNodes + 1)}

RECURSIVE OutlinesUpTo(_)
OutlinesUpTo(n) ==
    IF n = 0 THEN {<<>>}
    ELSE {Append(o, item) : o \in OutlinesUpTo(n - 1), item \in Items(n)}

ScanTable == (1 :> Obj("PageArray", PageObjectId(1)))

\* ------------------------------------------------------------------------
\* Chapter boundaries and the parallel split (main.rs 155-215)
\* ------------------------------------------------------------------------
FullDocument == <<70, 117, 108, 108, 68, 111, 99, 117, 109, 101, 110, 116>>

\* Leaves an empty vector empty.
NoFallback(v) == v

\* main.rs 155-158
WithFallback(v) ==
    IF v = <<>> THEN <<[page |-> 1, title |-> FullDocument]>> ELSE v

\* Insertion behind every entry whose key is not larger: a stable sort.
RECURSIVE InsertStable(_, _)
InsertStable(sorted, x) ==
    IF sorted = <<>> THEN <<x>>
    ELSE IF x.page < Head(sorted).page THEN <<x>> \o sorted
    ELSE <<Head(sorted)>> \o InsertStable(Tail(sorted), x)

\* main.rs 160: chapter_starts.sort_by_key(|k| k.0)
RECURSIVE SortByKey(_)
SortByKey(v) ==
    IF v = <<>> THEN <<>>
    ELSE InsertStable(SortByKey(SubSeq(v, 1, Len(v) - 1)), v[Len(v)])

\* Keeps every entry.
KeepAll(v) == v

\* main.rs 161: chapter_starts.dedup_by_key(|k| k.0): of consecutive entries
\* with the same key the first is kept.
RECURSIVE DedupByKey(_)
DedupByKey(v) ==
    IF Len(v) <= 1 THEN v
    ELSE LET front == DedupByKey(SubSeq(v, 1, Len(v) - 1))
             last == v[Len(v)]
         IN IF front[Len(front)].page = last.page THEN front ELSE Append(front, last)

\* The next chapter's start page, without the - 1.
EndPageNoGap(cs, i, n_pages) ==
    IF i + 1 <= Len(cs)
    THEN IF cs[i + 1].page > cs[i].page THEN cs[i + 1].page ELSE cs[i].page
    ELSE n_pages

\* main.rs 170-178, with i counted from 1
EndPage(cs, i, n_pages) ==
    IF i + 1 <= Len(cs)
    THEN IF cs[i + 1].page > cs[i].page THEN cs[i + 1].page - 1 ELSE cs[i].page
    ELSE n_pages

\* main.rs 185-192: the pages delete_pages leaves in the clone
KeptPages(pages, start_page, end_page) ==
    {p \in pages : ~(p < start_page \/ p > end_page)}

Runnable == {"ready", "cloned", "deleted"}

\* A failed save that stops every task still running (an error propagated
\* out of the parallel loop instead of being printed).
SaveResultAbort(ts, i, fails) ==
    IF i \in fails
    THEN [j \in DOMAIN ts |->
            IF j = i THEN [ts[j] EXCEPT !.st = "failed"]
            ELSE IF ts[j].st \in Runnable THEN [ts[j] EXCEPT !.st = "cancelled"]
            ELSE ts[j]]
    ELSE [ts EXCEPT ![i].st = "saved"]

\* main.rs 204-211: an Err of save() is printed, nothing else happens
SaveResult(ts, i, fails) ==
    [ts EXCEPT ![i].st = IF i \in fails THEN "failed" ELSE "saved"]

\* Titles of the entries the scan hands over: entry i carries chr(64 + i).
RawStarts(ps) == [i \in 1..Len(ps) |-> [page |-> ps[i], title |-> <<64 + i>>]]

Max(a, b) == IF a > b THEN a ELSE b

\* ------------------------------------------------------------------------
\* Values every phase leaves alone
\* ------------------------------------------------------------------------
IdleDecode == bytes = <<>> /\ decoded = <<>>
IdleNames == dests_entry = "absent" /\ tree = <<>> /\ legacy = <<>> /\ named_dests = <<>>
IdleWalk == outline = <<>> /\ first_ref = 0 /\ current_id_opt = 0 /\ scan_log = <<>>
IdleSplit == raw_starts = <<>> /\ save_fails = {} /\ tasks = <<>> /\ outputs = <<>>

\* ------------------------------------------------------------------------
\* Specification of the decoder
\* ------------------------------------------------------------------------
InitDecode ==
    /\ pc = "decode"
    /\ bytes \in SeqsUpTo(ByteAlphabet, MaxLen)
    /\ decoded = <<>>
    /\ IdleNames /\ IdleWalk /\ IdleSplit
    /\ chapter_starts = <<>> /\ total_pages = 0

Decode ==
    /\ pc = "decode"
    /\ decoded' = decode_pdf_string(bytes)
    /\ pc' = "decoded"
    /\ UNCHANGED <<bytes, namesVars, walkVars, splitVars, chapter_starts, total_pages>>

NextDecode == Decode

SpecDecode == InitDecode /\ [][NextDecode]_vars

\* ------------------------------------------------------------------------
\* Specification of the names phase (main.rs 71-123)
\* ------------------------------------------------------------------------
InitNames ==
    /\ pc = "names"
    /\ dests_entry \in {"absent", "ref", "inline"}
    /\ tree \in TreeStoresUpTo(MaxTreeNodes)
    /\ legacy \in LegacyDicts
    /\ named_dests = <<>>
    /\ total_pages = MaxPages
    /\ IdleDecode /\ IdleWalk /\ IdleSplit
    /\ chapter_starts = <<>>

\* main.rs 77-111
BuildNameTree ==
    /\ pc = "names"
    /\ named_dests' = NameTreeEntries(dests_entry, tree)
    /\ pc' = "legacy"
    /\ UNCHANGED <<decodeVars, dests_entry, tree, legacy, walkVars, splitVars,
                   chapter_starts, total_pages>>

\* main.rs 112-120
MergeLegacy ==
    /\ pc = "legacy"
    /\ named_dests' = InsertAll(named_dests, legacy)
    /\ pc' = "scan"
    /\ UNCHANGED <<decodeVars, dests_entry, tree, legacy, walkVars, splitVars,
                   chapter_starts, total_pages>>

NextNames == BuildNameTree \/ MergeLegacy

SpecNames == InitNames /\ [][NextNames]_vars

\* ------------------------------------------------------------------------
\* Specification of the outline scan (main.rs 125-153, 259-310)
\* ------------------------------------------------------------------------
InitWalk ==
    /\ pc = "scan"
    /\ \/ first_ref = 1 /\ outline \in OutlinesUpTo(MaxNodes)
       \/ first_ref = 0 /\ outline = <<>>
    /\ current_id_opt = 0
    /\ chapter_starts = <<>>
    /\ scan_log = <<>>
    /\ named_dests = ScanTable
    /\ dests_entry = "absent" /\ tree = <<>> /\ legacy = ScanTable
    /\ total_pages = MaxPages
    /\ IdleDecode /\ IdleSplit

\* main.rs 129-153
ScanOutlines ==
    /\ pc = "scan"
    /\ IF first_ref # 0
       THEN pc' = "walk" /\ current_id_opt' = first_ref
       ELSE pc' = "normalize" /\ current_id_opt' = 0
    /\ UNCHANGED <<decodeVars, namesVars, outline, first_ref, scan_log, splitVars,
                   chapter_starts, total_pages>>

\* main.rs 268-269: the loop takes the next id and fetches its dictionary
WalkFetch ==
    /\ pc = "walk"
    /\ current_id_opt # 0
    /\ current_id_opt \in DOMAIN outline
    /\ pc' = "visit"
    /\ UNCHANGED <<decodeVars, namesVars, walkVars, splitVars, chapter_starts, total_pages>>

\* main.rs 271-305: the body of the loop on the fetched item
WalkVisit ==
    /\ pc = "visit"
    /\ LET item == outline[current_id_opt]
           title == ItemTitle(item)
           target_page_num ==
               TargetPageNum(item, object_id_to_page(total_pages), named_dests)
       IN /\ IF target_page_num # 0
             THEN /\ chapter_starts' =
                        PushCapped(chapter_starts, [page |-> target_page_num, title |-> title])
                  /\ scan_log' = scan_log
             ELSE /\ scan_log' = PushCapped(scan_log, SkippedLine(title))
                  /\ chapter_starts' = chapter_starts
          /\ current_id_opt' = NextId(item)
    /\ pc' = "walk"
    /\ UNCHANGED <<decodeVars, namesVars, outline, first_ref, splitVars, total_pages>>

\* main.rs 268, 306-309: the loop ends on None, or breaks on an object that
\* cannot be fetched as a dictionary
WalkExit ==
    /\ pc = "walk"
    /\ current_id_opt = 0 \/ current_id_opt \notin DOMAIN outline
    /\ pc' = "normalize"
    /\ UNCHANGED <<decodeVars, namesVars, walkVars, splitVars, chapter_starts, total_pages>>

NextWalk == ScanOutlines \/ WalkFetch \/ WalkVisit \/ WalkExit

SpecWalk == InitWalk /\ [][NextWalk]_vars

\* The scan is one sequential loop: it keeps running while it has a step.
FairSpecWalk == SpecWalk /\ WF_vars(NextWalk)

\* ------------------------------------------------------------------------
\* Specification of the boundary calculation and the split (main.rs 155-215)
\* ------------------------------------------------------------------------
\* The scan hands over any sequence of entries whose pages are pages of the
\* document (they are values of object_id_to_page).
InitSplit ==
    /\ pc = "normalize"
    /\ total_pages \in 0..MaxPages
    /\ \E ps \in SeqsUpTo(1..total_pages, MaxRaw) :
          /\ chapter_starts = RawStarts(ps)
          /\ save_fails \in SUBSET (1..Max(1, Len(ps)))
    /\ raw_starts = <<>>
    /\ tasks = <<>>
    /\ outputs = <<>>
    /\ IdleDecode /\ IdleNames /\ IdleWalk

\* main.rs 155-166
Normalize ==
    /\ pc = "normalize"
    /\ raw_starts' = chapter_starts
    /\ chapter_starts' = DedupByKey(SortByKey(WithFallback(chapter_starts)))
    /\ tasks' = [i \in 1..Len(chapter_starts') |->
                    [st |-> "ready", end_page |-> 0, pages |-> {}]]
    /\ pc' = "split"
    /\ UNCHANGED <<decodeVars, namesVars, walkVars, save_fails, outputs, total_pages>>

\* main.rs 170-183: end_page, the empty-range return, doc.clone()
TaskStart(i) ==
    /\ pc = "split"
    /\ i \in DOMAIN tasks
    /\ tasks[i].st = "ready"
    /\ LET start_page == chapter_starts[i].page
           end_page == EndPage(chapter_starts, i, total_pages)
       IN tasks' = [tasks EXCEPT ![i] =
                       IF start_page > end_page
                       THEN [st |-> "skipped", end_page |-> end_page, pages |-> {}]
                       ELSE [st |-> "cloned", end_page |-> end_page,
                             pages |-> 1..total_pages]]
    /\ UNCHANGED <<pc, decodeVars, namesVars, walkVars, raw_starts, save_fails, outputs,
                   chapter_starts, total_pages>>

\* main.rs 185-192
TaskDelete(i) ==
    /\ pc = "split"
    /\ i \in DOMAIN tasks
    /\ tasks[i].st = "cloned"
    /\ tasks' = [tasks EXCEPT ![i] =
                    [@ EXCEPT !.st = "deleted",
                              !.pages = KeptPages(@, chapter_starts[i].page,
                                                  tasks[i].end_page)]]
    /\ UNCHANGED <<pc, decodeVars, namesVars, walkVars, raw_starts, save_fails, outputs,
                   chapter_starts, total_pages>>

\* main.rs 194-211
TaskSave(i) ==
    /\ pc = "split"
    /\ i \in DOMAIN tasks
    /\ tasks[i].st = "deleted"
    /\ tasks' = SaveResult(tasks, i, save_fails)
    /\ outputs' = IF i \in save_fails THEN outputs
                  ELSE MapInsert(outputs, i, tasks[i].pages)
    /\ UNCHANGED <<pc, decodeVars, namesVars, walkVars, raw_starts, save_fails,
                   chapter_starts, total_pages>>

Task(i) == TaskStart(i) \/ TaskDelete(i) \/ TaskSave(i)

\* main.rs 212-215: for_each returns when no task is left to run
Join ==
    /\ pc = "split"
    /\ \A i \in DOMAIN tasks : tasks[i].st \notin Runnable
    /\ pc' = "done"
    /\ UNCHANGED <<decodeVars, namesVars, walkVars, splitVars, chapter_starts, total_pages>>

NextSplit == Normalize \/ (\E i \in 1..MaxRaw : Task(i)) \/ Join

SpecSplit == InitSplit /\ [][NextSplit]_vars

\* The pool runs every task that is ready: no task waits forever.
FairSpecSplit ==
    /\ SpecSplit
    /\ WF_vars(Normalize)
    /\ \A i \in 1..MaxRaw : WF_vars(Task(i))
    /\ WF_vars(Join)

\* ------------------------------------------------------------------------
\* Properties
\* ------------------------------------------------------------------------
\* The range of chapter i as the tasks computed it.
StartOf(i) == chapter_starts[i].page
EndOf(i) == tasks[i].end_page
Covering(p) == {i \in DOMAIN tasks : StartOf(i) <= p /\ p <= EndOf(i)}
Produced == {i \in DOMAIN tasks : tasks[i].st # "skipped"}

StrictlyIncreasing(v) == \A i \in 1..(Len(v) - 1) : v[i].page < v[i + 1].page

\* C1 (as stated): for N >= 1 bookmarks at strictly increasing pages, every
\* page 1..total_pages lies in the range of exactly one chapter, the pages
\* before the first bookmark included.
C1_CoversFromPageOne ==
    (pc = "done" /\ Len(raw_starts) >= 1 /\ StrictlyIncreasing(raw_starts))
        => \A p \in 1..total_pages : Cardinality(Covering(p)) = 1

\* C1 (amended): for N >= 1 bookmarks at strictly increasing pages there are
\* N chapters, every page from the first bookmark's page to total_pages lies
\* in the range of exactly one chapter, and a page before the first
\* bookmark's page lies in none.
C1_CoversFromFirstBookmark ==
    (pc = "done" /\ Len(raw_starts) >= 1 /\ StrictlyIncreasing(raw_starts))
        => /\ Len(chapter_starts) = Len(raw_starts)
           /\ \A p \in 1..total_pages :
                 Cardinality(Covering(p)) = IF p >= raw_starts[1].page THEN 1 ELSE 0

C1_Witness ==
    /\ pc = "done"
    /\ Len(raw_starts) >= 2
    /\ StrictlyIncreasing(raw_starts)
    /\ raw_starts[1].page > 1

\* C2: the chapters for which output is produced have strictly ascending
\* start pages, start_page <= end_page, every end_page below the next
\* chapter's start_page, and every bookmarked page starts exactly one chapter.
C2_ChaptersDisjointAscending ==
    pc = "done" =>
        /\ \A i \in Produced : StartOf(i) <= EndOf(i)
        /\ \A i, j \in Produced : i < j => (StartOf(i) < StartOf(j) /\ EndOf(i) < StartOf(j))
        /\ \A k \in DOMAIN raw_starts :
              Cardinality({i \in Produced : StartOf(i) = raw_starts[k].page}) = 1

C2_Witness ==
    /\ pc = "done"
    /\ \E k, l \in DOMAIN raw_starts : k < l /\ raw_starts[k].page = raw_starts[l].page
    /\ Len(chapter_starts) < Len(raw_starts)
    /\ Produced # {}

\* C6: an empty scan result yields exactly one chapter, starting at page 1,
\* ending at total_pages, with the fallback title, for every page count.
C6_EmptyOutlineOneChapter ==
    (pc = "done" /\ raw_starts = <<>>)
        => /\ Len(chapter_starts) = 1
           /\ chapter_starts[1] = [page |-> 1, title |-> FullDocument]
           /\ EndOf(1) = total_pages

C6_Witness ==
    /\ pc = "done"
    /\ raw_starts = <<>>
    /\ total_pages = MaxPages
    /\ 1 \in DOMAIN outputs
    /\ outputs[1] = 1..total_pages

\* C5: under every interleaving and for every set of failing saves the run
\* finishes, and every chapter with a non-empty range whose save does not
\* fail has its file written with exactly the pages of its range.
C5_SiblingsComplete ==
    <>(/\ pc = "done"
       /\ \A i \in DOMAIN tasks :
             (StartOf(i) <= EndPage(chapter_starts, i, total_pages) /\ i \notin save_fails)
                 => (i \in DOMAIN outputs /\ outputs[i] = StartOf(i)..EndOf(i)))

C5_Witness ==
    /\ pc = "done"
    /\ \E i, j \in DOMAIN tasks :
          /\ i < j
          /\ tasks[i].st = "failed"
          /\ tasks[j].st = "saved"
          /\ j \in DOMAIN outputs

\* ---- outline scan ----
\* The items on the Next chain from item id, in order, up to the first
\* missing object or repeated item.
RECURSIVE SiblingChain(_, _)
SiblingChain(id, seen) ==
    IF id = 0 \/ id \notin DOMAIN outline \/ id \in seen THEN <<>>
    ELSE <<id>> \o SiblingChain(outline[id].next, seen \cup {id})

\* Depth-first pre-order over First and Next: an item, then its children,
\* then its next sibling.
RECURSIVE PreOrder(_, _)
PreOrder(id, seen) ==
    IF id = 0 \/ id \notin DOMAIN outline \/ id \in seen THEN <<>>
    ELSE LET below == PreOrder(outline[id].first, seen \cup {id})
             seen2 == seen \cup {id} \cup {below[k] : k \in DOMAIN below}
         IN <<id>> \o below \o PreOrder(outline[id].next, seen2)

PageOfItem(n) == TargetPageNum(outline[n], object_id_to_page(total_pages), named_dests)

RECURSIVE ResolvedEntries(_)
ResolvedEntries(ids) ==
    IF ids = <<>> THEN <<>>
    ELSE (IF PageOfItem(Head(ids)) # 0
          THEN <<[page |-> PageOfItem(Head(ids)), title |-> ItemTitle(outline[Head(ids)])]>>
          ELSE <<>>) \o ResolvedEntries(Tail(ids))

\* C3 (as stated): the scan returns the resolvable bookmarks of the whole
\* tree in depth-first pre-order, nested bookmarks included.
C3_FullPreOrder ==
    pc = "normalize" => chapter_starts = ResolvedEntries(PreOrder(first_ref, {}))

\* C3 (amended): the scan returns the resolvable bookmarks of the top-level
\* sibling chain (the items reached from the first item through Next), in
\* chain order; First is never followed, nested bookmarks are not included.
C3_TopLevelChainOnly ==
    pc = "normalize" => chapter_starts = ResolvedEntries(SiblingChain(first_ref, {}))

C3_Witness ==
    /\ pc = "normalize"
    /\ first_ref # 0
    /\ outline[first_ref].first # 0
    /\ PageOfItem(outline[first_ref].first) # 0
    /\ PageOfItem(first_ref) # 0
    /\ chapter_starts = <<[page |-> PageOfItem(first_ref),
                           title |-> ItemTitle(outline[first_ref])]>>

\* C4: the scan terminates for every document, also one whose Next chain is
\* cyclic, and the boundary calculation is reached.
C4_ScanTerminates == <>(pc = "normalize")

\* An item with a URI action whose Dest is absent or does not resolve.
NotGoToUnresolved(n) ==
    /\ outline[n].action.s = "URI"
    /\ \/ outline[n].dest = Absent
       \/ resolve_dest(outline[n].dest, object_id_to_page(total_pages), named_dests) = 0

\* C7: an item whose Dest is absent or unresolvable and whose action is not a
\* GoTo action adds nothing to the chapter starts, whatever the action's D
\* holds; its title goes to the log and the scan moves on to Next.
C7_NonGoToSkipped ==
    [][\A n \in DOMAIN outline :
          (pc = "visit" /\ current_id_opt = n /\ NotGoToUnresolved(n))
              => /\ chapter_starts' = chapter_starts
                 /\ scan_log' = PushCapped(scan_log, SkippedLine(ItemTitle(outline[n])))
                 /\ current_id_opt' = outline[n].next
                 /\ pc' = "walk"]_vars

C7_Witness ==
    /\ pc = "normalize"
    /\ \E n \in DOMAIN outline :
          /\ NotGoToUnresolved(n)
          /\ outline[n].action.d = Obj("PageArray", PageObjectId(DestPage(n)))
          /\ n \in {SiblingChain(first_ref, {})[k] : k \in DOMAIN SiblingChain(first_ref, {})}
          /\ outline[n].next # 0
          /\ \E k \in DOMAIN scan_log : scan_log[k] = SkippedLine(ItemTitle(outline[n]))
          /\ Len(chapter_starts) >= 1

\* ---- decoder ----
OddTail(s) == HasMarker(s) /\ (Len(s) - 2) % 2 = 1
Front(s) == SubSeq(s, 1, Len(s) - 1)

\* C8 (as stated): the marker followed by an odd number of bytes decodes to
\* the lossy UTF-8 decoding of the whole byte string.
C8_TruncatedFallsBack ==
    (pc = "decoded" /\ OddTail(bytes)) => decoded = Utf8Lossy(bytes, 1)

\* C8 (amended): the marker followed by an odd number of bytes decodes as the
\* same bytes without the trailing byte do when the complete pairs are valid
\* UTF-16 (the trailing byte is ignored), and to the lossy UTF-8 decoding of
\* the whole byte string only when the complete pairs are not valid UTF-16.
C8_TrailingByteIgnored ==
    (pc = "decoded" /\ OddTail(bytes))
        => decoded = IF Utf16Ok(ChunksExactBE(SubSeq(Front(bytes), 3, Len(bytes) - 1)), 1)
                     THEN decode_pdf_string(Front(bytes))
                     ELSE Utf8Lossy(bytes, 1)

C8_Witness ==
    /\ pc = "decoded"
    /\ bytes = <<254, 255, 0>>
    /\ decoded = <<>>

\* ---- named destinations ----
\* The nodes reached from the root through Kids.
RECURSIVE TreeReach(_)
TreeReach(n) ==
    {n} \cup UNION {TreeReach(tree[n].kids[k]) : k \in DOMAIN tree[n].kids}

\* The (key, value) pairs of a Names array.
PairsOf(names) ==
    {<<names[2 * i - 1].a, names[2 * i]>> :
        i \in {j \in 1..(Len(names) \div 2) : IsKey(names[2 * j - 1])}}

NameTreePairs ==
    IF dests_entry = "absent" THEN {}
    ELSE UNION {PairsOf(tree[n].names) : n \in TreeReach(1)}

\* What a named destination's value points at.
ValuePage(v) ==
    IF v.tag \in {"PageArray", "DictD"} /\ v.a \in {PageObjectId(p) : p \in 1..total_pages}
    THEN v.a - 100 ELSE 0

\* C9: a key of both the name tree and the legacy Dests dictionary maps to
\* the legacy value in the finished table, and a bookmark whose Dest is that
\* key resolves through the legacy value.
C9_LegacyOverrides ==
    pc = "scan" =>
        \A k \in {pr[1] : pr \in NameTreePairs} \cap DOMAIN legacy :
            /\ k \in DOMAIN named_dests
            /\ named_dests[k] = legacy[k]
            /\ resolve_dest(Obj("Name", k), object_id_to_page(total_pages), named_dests)
                   = ValuePage(legacy[k])

C9_Witness ==
    /\ pc = "scan"
    /\ dests_entry = "ref"
    /\ \E pr \in PairsOf(tree[1].names) :
          /\ pr[1] \in DOMAIN legacy
          /\ legacy[pr[1]] # pr[2]
          /\ named_dests[pr[1]] = legacy[pr[1]]
          /\ resolve_dest(Obj("Name", pr[1]), object_id_to_page(total_pages), named_dests)
                 = ValuePage(legacy[pr[1]])

\* C10: whether the root is an indirect reference or an inline dictionary,
\* the table has a key for every pair of the root and of every node reached
\* from it through Kids.
C10_AllReachablePairs ==
    pc \in {"legacy", "scan"} => \A pr \in NameTreePairs : pr[1] \in DOMAIN named_dests

====
